---- MODULE Spec2Model ----
(***************************************************************************)
(* Model of the news bulletin aggregator: the fetch / combine / cleanup    *)
(* pipeline of src/main.py driven by main() and by the /api/generate       *)
(* handler of src/app.py, and the retention cleanup of /api/cleanup.       *)
(*                                                                         *)
(* Time is counted in ticks, TicksPerDay ticks to a day.  A file system    *)
(* directory is a function from file name to file content.                 *)
(***************************************************************************)
EXTENDS Integers, Sequences, FiniteSets, TLC

VARIABLES
    now,               \* the wall clock, in ticks
    temp,              \* output/temp: staged path -> payload
    output,            \* output/*.mp3: artifact name -> artifact
    pc,                \* per run: position in the pipeline
    mode,              \* per run: "cli" (main.py) or "api" (/api/generate)
    news_sources,      \* per run: the enabled sources, in enumeration order
    idx,               \* per run: index of the next source to fetch
    downloaded_files,  \* per run: the staged list
    fetch_log,         \* per run: the result of each fetch made, in order
    pos,               \* per run: index of the next staged item to decode
    combined,          \* per run: the timeline built by combine_audio_files
    output_filename,   \* per run: the name chosen for the artifact
    outcome,           \* per run: how the run ended
    wrote,             \* per run: the run exported an artifact
    last_cleanup,      \* the last /api/cleanup call: its inputs and response
    events,            \* per run: the progress events of /api/generate/stream
    calls,             \* the calls made of the functions checked on their own
    config             \* config.json: active profile, profiles, device links

vars == <<now, temp, output, pc, mode, news_sources, idx, downloaded_files,
          fetch_log, pos, combined, output_filename, outcome, wrote,
          last_cleanup, events, calls, config>>

run_vars == <<pc, mode, news_sources, idx, downloaded_files, fetch_log,
              pos, combined, output_filename, outcome, wrote, events>>

----------------------------------------------------------------------------
(* Bounds *)

MaxTime == 1
TicksPerDay == 2
MaxFiles == 2
MaxAgeTicks == 4
MaxKeepCount == 3
MaxAgeDays == 5
MaxEmailLen == 7
MaxCalls == 3

\* Two pipeline runs, which may overlap: threaded web requests, or a web
\* request and the scheduled main().
Runs == {1, 2}

(* Program constants *)

SilenceMs == 2000
MaxAddressLength == 254
MinTldLength == 2
MaxAttachmentMB == 25
BytesPerMB == 1024 * 1024

----------------------------------------------------------------------------
(* Sources.  A source name is a tuple of characters, so that the file name *)
(* derivation of fetch_latest_bulletin can be computed.                    *)

SrcAB == <<"A", " ", "B">>
SrcC == <<"C">>

\* The sources of the profile (or the built-in list of main.py), in dict order.
ProfileSources == <<SrcAB, SrcC>>

RECURSIVE SubSeqs(_)
\* Every subsequence of s: the possible `enabled_sources` of a profile.
SubSeqs(s) ==
    IF s = <<>> THEN {<<>>}
    ELSE LET rest == SubSeqs(Tail(s))
         IN  rest \cup {<<Head(s)>> \o t : t \in rest}

\* app.py: {name: data['url'] for ... if data['enabled']}
EnabledChoices == SubSeqs(ProfileSources)

\* str.replace(' ', '_')
ReplaceSpaces(name) ==
    [i \in 1..Len(name) |-> IF name[i] = " " THEN "_" ELSE name[i]]

AudioExtensions == {"mp3", "wav", "m4a", "aac"}
RawExtensions == {"mp3", "ogg"}

\* file_extension, defaulting to mp3 outside the whitelist
FileExtension(raw) == IF raw \in AudioExtensions THEN raw ELSE "mp3"

\* temp_dir / f"{source_name.replace(' ', '_')}.{file_extension}"
StagedPath(name, raw) == <<ReplaceSpaces(name), FileExtension(raw)>>

Durations == {1000, 3000}

\* What one call of fetch_latest_bulletin can meet.
\* "ok" stages a payload, which decodes (audio) or not; "write_failed" is
\* write_bytes raising after it has created the file.
FetchResults ==
    [kind : {"no_entries", "no_audio", "download_failed"},
     raw : {"mp3"}, audio : {FALSE}, dur : {0}]
    \cup [kind : {"ok"}, raw : RawExtensions, audio : {TRUE}, dur : Durations]
    \cup [kind : {"ok", "write_failed"}, raw : RawExtensions,
          audio : {FALSE}, dur : {0}]

UnreachableKinds == {"no_entries", "no_audio", "download_failed"}

\* The log entry of a fetch: staged, nothing written, or a partial write.
FetchClass(kind) ==
    IF kind = "ok" THEN "ok"
    ELSE IF kind \in UnreachableKinds THEN "unreachable" ELSE "write_failed"

----------------------------------------------------------------------------
(* The configuration document.  A profile id is a tuple of characters, so  *)
(* that the normalisation of a new id can be computed; DefaultId stands    *)
(* for the id 'default'.                                                   *)

DefaultId == <<"d">>

\* str.lower(), on the characters used here
Lower(id) == [i \in 1..Len(id) |-> IF id[i] = "D" THEN "d"
                                   ELSE IF id[i] = "A" THEN "a" ELSE id[i]]

\* data.get('id', '').lower().replace(' ', '_')
ProfileId(raw) == ReplaceSpaces(Lower(raw))

\* {'name': ..., 'sources': DEFAULT_SOURCES.copy()}
Profile(name) == [name |-> name, sources |-> ProfileSources]

\* No device is linked: the empty mapping.
NoLinks == [d \in {} |-> DefaultId]

DEFAULT_CONFIG ==
    [active_profile |-> DefaultId,
     profiles |-> [id \in {DefaultId} |-> Profile("Default")],
     device_profiles |-> NoLinks]

----------------------------------------------------------------------------
(* Directories *)

EmptyDir == [p \in {} |-> 0]

\* Path.write_bytes / export: create or overwrite one file
WriteFile(dir, name, content) ==
    [p \in DOMAIN dir \cup {name} |-> IF p = name THEN content ELSE dir[p]]

\* unlink of every file in `names`
RemoveFiles(dir, names) == [p \in DOMAIN dir \ names |-> dir[p]]

----------------------------------------------------------------------------
(* Initial state: no run started, empty directories. *)

NoCleanup ==
    [ran |-> FALSE, order |-> <<>>, mtimes |-> <<>>, keep_count |-> 0,
     max_age_days |-> 0, at |-> 0, deleted |-> 0, kept |-> 0]

RunsIdle ==
    /\ pc = [r \in Runs |-> "idle"]
    /\ mode = [r \in Runs |-> "cli"]
    /\ news_sources = [r \in Runs |-> <<>>]
    /\ idx = [r \in Runs |-> 1]
    /\ downloaded_files = [r \in Runs |-> <<>>]
    /\ fetch_log = [r \in Runs |-> <<>>]
    /\ pos = [r \in Runs |-> 1]
    /\ combined = [r \in Runs |-> <<>>]
    /\ output_filename = [r \in Runs |-> <<"", 0>>]
    /\ outcome = [r \in Runs |-> "none"]
    /\ wrote = [r \in Runs |-> FALSE]
    /\ events = [r \in Runs |-> <<>>]

Init ==
    /\ now = 0
    /\ temp = EmptyDir
    /\ output = EmptyDir
    /\ RunsIdle
    /\ last_cleanup = NoCleanup
    /\ calls = <<>>
    /\ config = DEFAULT_CONFIG

----------------------------------------------------------------------------
(* The pipeline *)

\* A run begins: main() uses the built-in source list, /api/generate the
\* enabled sources of the active profile.
Start(r, m, enabled) ==
    /\ pc[r] = "idle"
    /\ m = "cli" => enabled = ProfileSources
    /\ pc' = [pc EXCEPT ![r] = "fetching"]
    /\ mode' = [mode EXCEPT ![r] = m]
    /\ news_sources' = [news_sources EXCEPT ![r] = enabled]
    /\ idx' = [idx EXCEPT ![r] = 1]
    /\ downloaded_files' = [downloaded_files EXCEPT ![r] = <<>>]
    /\ UNCHANGED <<now, temp, output, fetch_log, pos, combined,
                   output_filename, outcome, wrote, last_cleanup, events, calls, config>>

PrependDownloaded(files, entry) == <<entry>> \o files

\* downloaded_files.append(audio_file)
AppendDownloaded(files, entry) == Append(files, entry)

NextSourceIndexAbort(i, n, res) == IF res.kind = "ok" THEN i + 1 ELSE n + 1

\* the for loop over the sources goes on to the next source whatever the
\* result of the fetch
NextSourceIndex(i, n, res) == i + 1

\* fetch_latest_bulletin for the next source of the loop, and the
\* `if audio_file: downloaded_files.append(audio_file)` that follows it.
Fetch(r, res) ==
    /\ pc[r] = "fetching"
    /\ idx[r] <= Len(news_sources[r])
    /\ LET name == news_sources[r][idx[r]]
           path == StagedPath(name, res.raw)
           payload == [owner |-> r, src |-> name, audio |-> res.audio,
                       dur |-> res.dur]
       IN  /\ temp' = IF res.kind \in {"ok", "write_failed"}
                      THEN WriteFile(temp, path, payload)
                      ELSE temp
           /\ downloaded_files' =
                IF res.kind = "ok"
                THEN [downloaded_files EXCEPT ![r] =
                        AppendDownloaded(@, [src |-> name, path |-> path])]
                ELSE downloaded_files
    /\ idx' = [idx EXCEPT ![r] =
                 NextSourceIndex(@, Len(news_sources[r]), res)]
    /\ fetch_log' = [fetch_log EXCEPT ![r] = Append(@, FetchClass(res.kind))]
    /\ UNCHANGED <<now, output, pc, mode, news_sources, pos, combined,
                   output_filename, outcome, wrote, last_cleanup, events, calls, config>>

NoneDownloadedOffByOne(files) == Len(files) <= 1

\* `if not downloaded_files` (main.py) / `if not audio_files` (combiner)
NoneDownloaded(files) == files = <<>>

\* main.py: news_bulletin_<date>.mp3; /api/generate:
\* <profile slug>_<timestamp>.mp3
OutputFilename(m, t) ==
    IF m = "api" THEN <<"default", t>>
    ELSE <<"news_bulletin", t \div TicksPerDay>>

\* Where a run is once its pipeline is over: the generator of
\* /api/generate/stream still has its last event to yield.
AfterRun(m) == IF m = "stream" THEN "streaming" ELSE "done"

\* The end of the fetch loop: with nothing staged the run fails ("no_sources":
\* main.py returns None, /api/generate answers 500); otherwise the output name is
\* chosen and combine_audio_files starts with an empty timeline.
EndFetch(r) ==
    /\ pc[r] = "fetching"
    /\ idx[r] > Len(news_sources[r])
    /\ IF NoneDownloaded(downloaded_files[r])
       THEN /\ pc' = [pc EXCEPT ![r] = AfterRun(mode[r])]
            /\ outcome' = [outcome EXCEPT ![r] = "no_sources"]
            /\ UNCHANGED <<output_filename, combined, pos>>
       ELSE /\ pc' = [pc EXCEPT ![r] = "combining"]
            /\ output_filename' = [output_filename EXCEPT ![r] =
                                     OutputFilename(mode[r], now)]
            /\ combined' = [combined EXCEPT ![r] = <<>>]
            /\ pos' = [pos EXCEPT ![r] = 1]
            /\ UNCHANGED outcome
    /\ UNCHANGED <<now, temp, output, mode, news_sources, idx,
                   downloaded_files, fetch_log, wrote, last_cleanup, events, calls, config>>

Silence == [tag |-> "silence", src |-> <<>>, owner |-> 0, dur |-> SilenceMs]

Segment(entry, payload) ==
    [tag |-> "audio", src |-> entry.src, owner |-> payload.owner,
     dur |-> payload.dur]

\* AudioSegment.from_file succeeds on a staged file that is there and holds
\* audio
Decodes(dir, path) == path \in DOMAIN dir /\ dir[path].audio

AddAudioDropsOnFailure(timeline, entry, dir) ==
    IF Decodes(dir, entry.path)
    THEN timeline \o <<Segment(entry, dir[entry.path]), Silence>>
    ELSE <<>>

\* One iteration of the combine loop: combined += audio; combined += silence,
\* or nothing when from_file raises.
AddAudio(timeline, entry, dir) ==
    IF Decodes(dir, entry.path)
    THEN timeline \o <<Segment(entry, dir[entry.path]), Silence>>
    ELSE timeline

Decode(r) ==
    /\ pc[r] = "combining"
    /\ pos[r] <= Len(downloaded_files[r])
    /\ combined' = [combined EXCEPT ![r] =
                      AddAudio(@, downloaded_files[r][pos[r]], temp)]
    /\ pos' = [pos EXCEPT ![r] = @ + 1]
    /\ UNCHANGED <<now, temp, output, pc, mode, news_sources, idx,
                   downloaded_files, fetch_log, output_filename, outcome,
                   wrote, last_cleanup, events, calls, config>>

RECURSIVE TotalDuration(_)
\* len(combined)
TotalDuration(timeline) ==
    IF timeline = <<>> THEN 0
    ELSE Head(timeline).dur + TotalDuration(Tail(timeline))

\* What becomes of the exception when combined.export raises: the
\* /api/generate handler answers 500 with its text; it escapes
\* generate_daily_bulletin, and main() has no handler.
ExportRaised(m) == IF m = "api" THEN "combine_error" ELSE "raised"

\* combined.export(output_path, format='mp3'): writes the artifact, or raises
Export(r, ok) ==
    /\ pc[r] = "combining"
    /\ pos[r] > Len(downloaded_files[r])
    /\ IF ok
       THEN /\ output' = WriteFile(output, output_filename[r],
                            [timeline |-> combined[r],
                             duration |-> TotalDuration(combined[r]),
                             mtime |-> now, writer |-> r])
            /\ wrote' = [wrote EXCEPT ![r] = TRUE]
            /\ pc' = [pc EXCEPT ![r] = "cleaning"]
            /\ UNCHANGED outcome
       ELSE /\ pc' = [pc EXCEPT ![r] = AfterRun(mode[r])]
            /\ outcome' = [outcome EXCEPT ![r] = ExportRaised(mode[r])]
            /\ UNCHANGED <<output, wrote>>
    /\ UNCHANGED <<now, temp, mode, news_sources, idx, downloaded_files,
                   fetch_log, pos, combined, output_filename, last_cleanup, events, calls, config>>

CleanedTempOneFile(dir) ==
    IF DOMAIN dir = {} THEN dir
    ELSE RemoveFiles(dir, {CHOOSE p \in DOMAIN dir : TRUE})

\* cleanup_temp_files: unlink every file of temp_dir
CleanedTemp(dir) == RemoveFiles(dir, DOMAIN dir)

\* cleanup_temp_files, then the run returns the combined file
Cleanup(r) ==
    /\ pc[r] = "cleaning"
    /\ temp' = CleanedTemp(temp)
    /\ pc' = [pc EXCEPT ![r] = AfterRun(mode[r])]
    /\ outcome' = [outcome EXCEPT ![r] = "success"]
    /\ UNCHANGED <<now, output, mode, news_sources, idx, downloaded_files,
                   fetch_log, pos, combined, output_filename, wrote,
                   last_cleanup, events, calls, config>>

\* Time passes.
Tick ==
    /\ now < MaxTime
    /\ now' = now + 1
    /\ UNCHANGED <<temp, output, run_vars, last_cleanup, calls, config>>

Next ==
    \/ \E r \in Runs, m \in {"cli", "api"}, enabled \in EnabledChoices :
         Start(r, m, enabled)
    \/ \E r \in Runs, res \in FetchResults : Fetch(r, res)
    \/ \E r \in Runs : EndFetch(r)
    \/ \E r \in Runs : Decode(r)
    \/ \E r \in Runs, ok \in BOOLEAN : Export(r, ok)
    \/ \E r \in Runs : Cleanup(r)
    \/ Tick

Spec == Init /\ [][Next]_vars

----------------------------------------------------------------------------
(* The progress stream, /api/generate/stream *)

Event(stage, filename) == [stage |-> stage, filename |-> filename]

NoFile == <<"", 0>>

\* The one request followed; its events depend on no other run.
StreamRuns == {1}

\* The generator up to its call of generate_daily_bulletin: with no source
\* enabled it yields an error and returns, otherwise it yields `fetching`
\* and the pipeline of main.py starts on the enabled sources.
StreamStart(r, enabled) ==
    /\ pc[r] = "idle"
    /\ mode' = [mode EXCEPT ![r] = "stream"]
    /\ news_sources' = [news_sources EXCEPT ![r] = enabled]
    /\ IF enabled = <<>>
       THEN /\ events' = [events EXCEPT ![r] = <<Event("error", NoFile)>>]
            /\ pc' = [pc EXCEPT ![r] = "done"]
            /\ outcome' = [outcome EXCEPT ![r] = "no_enabled"]
       ELSE /\ events' = [events EXCEPT ![r] = <<Event("fetching", NoFile)>>]
            /\ pc' = [pc EXCEPT ![r] = "fetching"]
            /\ UNCHANGED outcome
    /\ idx' = [idx EXCEPT ![r] = 1]
    /\ downloaded_files' = [downloaded_files EXCEPT ![r] = <<>>]
    /\ UNCHANGED <<now, temp, output, fetch_log, pos, combined,
                   output_filename, wrote, last_cleanup, calls, config>>

\* `profile_id` is bound nowhere in api_generate_stream nor in the module:
\* evaluating it raises NameError.
ProfileIdBound == FALSE

\* f"{profile_id}_{output_file.name}"
ProfileFilename(name) == <<"default_news_bulletin", name[2]>>

\* output_file.rename(profile_output)
RenameFile(dir, from, to) ==
    IF from \in DOMAIN dir
    THEN [p \in (DOMAIN dir \ {from}) \cup {to} |->
            IF p = to THEN dir[from] ELSE dir[p]]
    ELSE dir

StreamTailCompleteFirst(result, name) ==
    IF result = "success"
    THEN <<Event("complete", ProfileFilename(name)), Event("error", NoFile)>>
    ELSE <<Event("error", NoFile)>>

\* What the generator yields after generate_daily_bulletin: with a file
\* returned, the renamed file's `complete`, unless building the new name
\* raises, which the handler turns into `error`; `error` too when None was
\* returned or the pipeline raised.
StreamTail(result, name) ==
    IF result = "success" /\ ProfileIdBound
    THEN <<Event("complete", ProfileFilename(name))>>
    ELSE <<Event("error", NoFile)>>

\* The rest of the generator, after generate_daily_bulletin returned or
\* raised.
StreamEnd(r) ==
    /\ pc[r] = "streaming"
    /\ events' = [events EXCEPT ![r] =
                    @ \o StreamTail(outcome[r], output_filename[r])]
    /\ output' = IF outcome[r] = "success" /\ ProfileIdBound
                 THEN RenameFile(output, output_filename[r],
                                 ProfileFilename(output_filename[r]))
                 ELSE output
    /\ pc' = [pc EXCEPT ![r] = "done"]
    /\ UNCHANGED <<now, temp, mode, news_sources, idx, downloaded_files,
                   fetch_log, pos, combined, output_filename, outcome, wrote,
                   last_cleanup, calls, config>>

NextStream ==
    \/ \E r \in StreamRuns, enabled \in EnabledChoices : StreamStart(r, enabled)
    \/ \E r \in Runs, res \in FetchResults : Fetch(r, res)
    \/ \E r \in Runs : EndFetch(r)
    \/ \E r \in Runs : Decode(r)
    \/ \E r \in Runs, ok \in BOOLEAN : Export(r, ok)
    \/ \E r \in Runs : Cleanup(r)
    \/ \E r \in Runs : StreamEnd(r)
    \/ Tick

SpecStream == Init /\ [][NextStream]_vars

----------------------------------------------------------------------------
(* Retention cleanup, /api/cleanup *)

RECURSIVE SortedNewestFirst(_, _)
\* sorted(OUTPUT_DIR.glob('*.mp3'), key=st_mtime, reverse=True): every order
\* of `names` with the modification times descending; files of equal time
\* come in the order the directory lists them, which is any order.
SortedNewestFirst(dir, names) ==
    IF names = {} THEN {<<>>}
    ELSE UNION {{<<f>> \o rest : rest \in SortedNewestFirst(dir, names \ {f})} :
                f \in {g \in names :
                         \A h \in names : dir[g].mtime >= dir[h].mtime}}

\* datetime.now() - timedelta(days=max_age_days)
CutoffDate(t, max_age_days) == t - max_age_days * TicksPerDay

KeepFileBothRules(i, keep_count, file_age, cutoff_date) ==
    i < keep_count /\ file_age > cutoff_date

\* `idx < keep_count or file_age > cutoff_date`; file_age is the file's
\* modification time
KeepFile(i, keep_count, file_age, cutoff_date) ==
    i < keep_count \/ file_age > cutoff_date

\* The whole handler: list, sort, keep or unlink each file, answer the counts.
api_cleanup(keep_count, max_age_days) ==
    \E mp3_files \in SortedNewestFirst(output, DOMAIN output) :
      LET cutoff_date == CutoffDate(now, max_age_days)
          keptIdx == {i \in 1..Len(mp3_files) :
                        KeepFile(i - 1, keep_count,
                                 output[mp3_files[i]].mtime, cutoff_date)}
          deletedIdx == (1..Len(mp3_files)) \ keptIdx
      IN  /\ output' = RemoveFiles(output, {mp3_files[i] : i \in deletedIdx})
          /\ last_cleanup' =
               [ran |-> TRUE, order |-> mp3_files,
                mtimes |-> [i \in 1..Len(mp3_files) |->
                              output[mp3_files[i]].mtime],
                keep_count |-> keep_count, max_age_days |-> max_age_days,
                at |-> now, deleted |-> Cardinality(deletedIdx),
                kept |-> Cardinality(keptIdx)]
          /\ UNCHANGED <<now, temp, run_vars, calls, config>>

\* An artifact some earlier run left in output/, last modified at time t.
StoredArtifact(t) ==
    [timeline |-> <<[tag |-> "audio", src |-> SrcC, owner |-> 0,
                     dur |-> 1000], Silence>>,
     duration |-> 1000 + SilenceMs, mtime |-> t, writer |-> 0]

\* The clock of the retention scenarios: late enough for a file nine days old.
RetentionNow == 9 * TicksPerDay

\* Up to MaxFiles artifacts, each of an age of 0..MaxAgeTicks ticks.
SmallStores ==
    UNION {[{<<"bulletin", i>> : i \in S} -> 0..MaxAgeTicks] :
             S \in SUBSET (1..MaxFiles)}

\* Ten artifacts of the ages 0, 1, ..., 9 whole days.
TenDayStore == [f \in {<<"bulletin", i>> : i \in 1..10} |-> (f[2] - 1) * TicksPerDay]

InitRetention ==
    /\ now = RetentionNow
    /\ temp = EmptyDir
    /\ \E ages \in SmallStores \cup {TenDayStore} :
         output = [f \in DOMAIN ages |-> StoredArtifact(now - ages[f])]
    /\ RunsIdle
    /\ last_cleanup = NoCleanup
    /\ calls = <<>>
    /\ config = DEFAULT_CONFIG

NextRetention ==
    \E keep_count \in 0..MaxKeepCount, max_age_days \in 0..MaxAgeDays :
      api_cleanup(keep_count, max_age_days)

SpecRetention == InitRetention /\ [][NextRetention]_vars

----------------------------------------------------------------------------
(* Retention cleanup while a run exports.  No action of Spec reads the     *)
(* output directory, so there combined.export is one step; /api/cleanup    *)
(* lists the directory, and here the export is two steps: the file is      *)
(* created at the output path, then its content is written.                *)

\* The one run followed while cleanups are called.
InFlightRuns == {1}

\* The file as export has created it, nothing written yet.
OpenedArtifact(r, t) ==
    [timeline |-> <<>>, duration |-> 0, mtime |-> t, writer |-> r]

\* combined.export(str(output_path), ...) opens the output path for writing
ExportOpen(r) ==
    /\ pc[r] = "combining"
    /\ pos[r] > Len(downloaded_files[r])
    /\ output' = WriteFile(output, output_filename[r], OpenedArtifact(r, now))
    /\ pc' = [pc EXCEPT ![r] = "exporting"]
    /\ UNCHANGED <<now, temp, mode, news_sources, idx, downloaded_files,
                   fetch_log, pos, combined, output_filename, outcome, wrote,
                   last_cleanup, events, calls, config>>

\* The export ends: the content is written through the open file (to no
\* directory entry if the file was unlinked meanwhile), or the encoder
\* raises and the file stays as it is.
ExportClose(r, ok) ==
    /\ pc[r] = "exporting"
    /\ IF ok
       THEN /\ output' = IF output_filename[r] \in DOMAIN output
                         THEN WriteFile(output, output_filename[r],
                                [timeline |-> combined[r],
                                 duration |-> TotalDuration(combined[r]),
                                 mtime |-> now, writer |-> r])
                         ELSE output
            /\ wrote' = [wrote EXCEPT ![r] = TRUE]
            /\ pc' = [pc EXCEPT ![r] = "cleaning"]
            /\ UNCHANGED outcome
       ELSE /\ pc' = [pc EXCEPT ![r] = AfterRun(mode[r])]
            /\ outcome' = [outcome EXCEPT ![r] = ExportRaised(mode[r])]
            /\ UNCHANGED <<output, wrote>>
    /\ UNCHANGED <<now, temp, mode, news_sources, idx, downloaded_files,
                   fetch_log, pos, combined, output_filename, last_cleanup,
                   events, calls, config>>

NextInFlight ==
    \/ \E r \in InFlightRuns, m \in {"cli", "api"}, enabled \in EnabledChoices :
         Start(r, m, enabled)
    \/ \E r \in Runs, res \in FetchResults : Fetch(r, res)
    \/ \E r \in Runs : EndFetch(r)
    \/ \E r \in Runs : Decode(r)
    \/ \E r \in Runs : ExportOpen(r)
    \/ \E r \in Runs, ok \in BOOLEAN : ExportClose(r, ok)
    \/ \E r \in Runs : Cleanup(r)
    \/ \E keep_count \in 0..MaxKeepCount, max_age_days \in 0..MaxAgeDays :
         api_cleanup(keep_count, max_age_days)
    \/ Tick

SpecInFlight == Init /\ [][NextInFlight]_vars

----------------------------------------------------------------------------
(* Delivery by e-mail: EmailSender.send_bulletin.  An address is a tuple   *)
(* of characters, so that the pattern of _is_valid_email can be matched.   *)

\* One letter and one digit stand for [a-zA-Z] and [0-9].
Letters == {"a"}
Digits == {"1"}

\* The characters the addresses tried are made of.
EmailChars == Letters \cup {"@", ".", "\n"}

\* [a-zA-Z0-9._%+-], [a-zA-Z0-9.-] and [a-zA-Z]
LocalClass == Letters \cup Digits \cup {".", "_", "%", "+", "-"}
DomainClass == Letters \cup Digits \cup {".", "-"}
TldClass == Letters

\* Every address of n characters; the empty one for n = 0.
Recipients(n) == [1..n -> EmailChars]

ValidAddress == <<"a", "@", "a", ".", "a", "a">>

\* Where `$` matches: at the end of the string, and before a newline that
\* is its last character.
EndOfString(email) ==
    {Len(email)}
    \cup {n \in {Len(email) - 1} : n >= 0 /\ email[n + 1] = "\n"}

\* re.match(r'^[a-zA-Z0-9._%+-]+@[a-zA-Z0-9.-]+\.[a-zA-Z]{2,}$', email)
MatchesEmailPattern(email) ==
    \E end \in EndOfString(email) :
      \E at \in 2..end :
        \E dot \in (at + 2)..(end - MinTldLength) :
          /\ \A k \in 1..(at - 1) : email[k] \in LocalClass
          /\ email[at] = "@"
          /\ \A k \in (at + 1)..(dot - 1) : email[k] \in DomainClass
          /\ email[dot] = "."
          /\ \A k \in (dot + 1)..end : email[k] \in TldClass

\* _is_valid_email
is_valid_email(email) ==
    /\ email # <<>>
    /\ Len(email) <= MaxAddressLength
    /\ MatchesEmailPattern(email)

TooLargeAtCeiling(size) == size >= MaxAttachmentMB * BytesPerMB

\* file_size_mb = st_size / (1024 * 1024); file_size_mb > 25
TooLarge(size) == size > MaxAttachmentMB * BytesPerMB

\* What the SMTP exchange can end in once the connection is asked for.
TransportResults == {"sent", "auth_failed", "smtp_error"}

\* send_bulletin(bulletin_path, profile_name, recipient_email), with
\* RECIPIENT_EMAIL of the environment, whether the SMTP credentials are set,
\* whether the file exists and its size in bytes.
send_bulletin(recipient_email, env_recipient, credentials, exists, size, transport) ==
    /\ LET recipient == IF recipient_email # <<>> THEN recipient_email
                        ELSE env_recipient
           result == IF recipient = <<>> THEN "no_recipient"
                     ELSE IF ~is_valid_email(recipient) THEN "invalid_recipient"
                     ELSE IF ~credentials THEN "no_credentials"
                     ELSE IF ~exists THEN "not_found"
                     ELSE IF TooLarge(size) THEN "too_large"
                     ELSE transport
       IN  calls' = <<[recipient |-> recipient, credentials |-> credentials,
                       exists |-> exists, size |-> size, result |-> result,
                       smtp_opened |-> result \in TransportResults,
                       returned |-> result = "sent"]>>
    /\ UNCHANGED <<now, temp, output, run_vars, last_cleanup, config>>

\* One call, with any address, for an artifact of 24 MB that exists.
NextRecipients ==
    /\ calls = <<>>
    /\ \E n \in 0..MaxEmailLen, env_recipient \in {<<>>, ValidAddress},
          credentials \in BOOLEAN, transport \in TransportResults :
         \E recipient_email \in Recipients(n) :
           send_bulletin(recipient_email, env_recipient, credentials, TRUE,
                         24 * BytesPerMB, transport)

SpecRecipients == Init /\ [][NextRecipients]_vars

SampleRecipients == {<<>>, <<"a">>, ValidAddress, ValidAddress \o <<"\n">>}

\* Artifact sizes in bytes, around the ceiling.
Sizes ==
    {1, 24 * BytesPerMB, MaxAttachmentMB * BytesPerMB - 1,
     MaxAttachmentMB * BytesPerMB, MaxAttachmentMB * BytesPerMB + 1,
     26 * BytesPerMB}

\* One call, with any artifact size, for a few addresses.
NextDelivery ==
    /\ calls = <<>>
    /\ \E recipient_email \in SampleRecipients,
          env_recipient \in {<<>>, ValidAddress},
          credentials \in BOOLEAN, exists \in BOOLEAN, size \in Sizes,
          transport \in TransportResults :
         send_bulletin(recipient_email, env_recipient, credentials, exists,
                       size, transport)

SpecDelivery == Init /\ [][NextDelivery]_vars

----------------------------------------------------------------------------
(* cleanup_temp_files called on its own, on any staging area *)

\* The staged file names the sources of the profile give.
StagingPaths ==
    {StagedPath(ProfileSources[i], raw) :
       i \in 1..Len(ProfileSources), raw \in RawExtensions}

StagedPayload(path, audio) ==
    [owner |-> 0, src |-> path[1], audio |-> audio,
     dur |-> IF audio THEN 1000 ELSE 0]

\* Every staging area earlier runs can have left.
StagingAreas ==
    UNION {[S -> BOOLEAN] : S \in SUBSET StagingPaths}

InitStaging ==
    /\ now = 0
    /\ \E area \in StagingAreas :
         temp = [p \in DOMAIN area |-> StagedPayload(p, area[p])]
    /\ output = EmptyDir
    /\ RunsIdle
    /\ last_cleanup = NoCleanup
    /\ calls = <<>>
    /\ config = DEFAULT_CONFIG

\* cleanup_temp_files(), logged with the number of files it has unlinked
cleanup_temp_files ==
    /\ Len(calls) < MaxCalls
    /\ LET left == CleanedTemp(temp)
       IN  /\ temp' = left
           /\ calls' = Append(calls,
                 [op |-> "cleanup",
                  deleted |-> Cardinality(DOMAIN temp \ DOMAIN left),
                  left |-> left])
    /\ UNCHANGED <<now, output, run_vars, last_cleanup, config>>

\* filename.write_bytes(response.content) of some fetch
write_bytes(path, audio) ==
    /\ Len(calls) < MaxCalls
    /\ LET left == WriteFile(temp, path, StagedPayload(path, audio))
       IN  /\ temp' = left
           /\ calls' = Append(calls,
                 [op |-> "write", deleted |-> 0, left |-> left])
    /\ UNCHANGED <<now, output, run_vars, last_cleanup, config>>

NextStaging ==
    \/ cleanup_temp_files
    \/ \E path \in StagingPaths, audio \in BOOLEAN : write_bytes(path, audio)

SpecStaging == InitStaging /\ [][NextStaging]_vars

----------------------------------------------------------------------------
(* One run over two sources whose names differ in one character *)

SimilarNames == {<<"A", c, "B">> : c \in {" ", "_", "-"}}

\* The enabled sources of a profile: dict keys, so two different names.
SimilarSources ==
    {<<a, b>> : a \in SimilarNames, b \in SimilarNames} \ {<<a, a>> : a \in SimilarNames}

NamesRuns == {1}

NextNames ==
    \/ \E r \in NamesRuns, enabled \in SimilarSources : Start(r, "api", enabled)
    \/ \E r \in Runs, res \in FetchResults : Fetch(r, res)
    \/ \E r \in Runs : EndFetch(r)
    \/ \E r \in Runs : Decode(r)
    \/ \E r \in Runs, ok \in BOOLEAN : Export(r, ok)
    \/ \E r \in Runs : Cleanup(r)
    \/ Tick

SpecNames == Init /\ [][NextNames]_vars

----------------------------------------------------------------------------
(* Profiles and device links: the handlers that load config.json, change   *)
(* it and save it.  Each request is one step.                              *)

\* The ids requests come with: none, 'default' in two spellings, and ids
\* that differ in case, in a space and in an underscore.
RawIds ==
    {<<>>, <<"d">>, <<"D">>, <<"a">>, <<"A">>, <<"a", " ">>, <<"a", "_">>}

ProfileNames == {"New Profile", "Work"}

Devices == {"phone", "tv"}

\* dict assignment and del
SetKey(map, key, value) ==
    [k \in DOMAIN map \cup {key} |-> IF k = key THEN value ELSE map[k]]
DelKey(map, key) == [k \in DOMAIN map \ {key} |-> map[k]]

\* The last request: what it asked for, the profile that was active when it
\* came, and its answer.
Answer(op, id, status) ==
    <<[op |-> op, id |-> id, active |-> config.active_profile,
       status |-> status]>>

\* POST /api/profiles
api_profiles(raw, name) ==
    LET profile_id == ProfileId(raw)
    IN  /\ IF profile_id = <<>>
           THEN /\ calls' = Answer("create", profile_id, "id_required")
                /\ UNCHANGED config
           ELSE IF profile_id \in DOMAIN config.profiles
           THEN /\ calls' = Answer("create", profile_id, "exists")
                /\ UNCHANGED config
           ELSE /\ config' = [config EXCEPT !.profiles =
                                SetKey(@, profile_id, Profile(name))]
                /\ calls' = Answer("create", profile_id, "success")
        /\ UNCHANGED <<now, temp, output, run_vars, last_cleanup>>

ActiveAfterDeleteKept(active, profile_id) == active

\* if config['active_profile'] == profile_id:
\*     config['active_profile'] = 'default'
ActiveAfterDelete(active, profile_id) ==
    IF active = profile_id THEN DefaultId ELSE active

\* DELETE /api/profiles/<profile_id>
api_delete_profile(profile_id) ==
    /\ IF profile_id = DefaultId
       THEN /\ calls' = Answer("delete", profile_id, "is_default")
            /\ UNCHANGED config
       ELSE IF profile_id \notin DOMAIN config.profiles
       THEN /\ calls' = Answer("delete", profile_id, "not_found")
            /\ UNCHANGED config
       ELSE /\ config' =
                 [config EXCEPT
                    !.profiles = DelKey(@, profile_id),
                    !.active_profile = ActiveAfterDelete(@, profile_id)]
            /\ calls' = Answer("delete", profile_id, "success")
    /\ UNCHANGED <<now, temp, output, run_vars, last_cleanup>>

\* POST /api/profiles/<profile_id>/switch
api_switch_profile(profile_id) ==
    /\ IF profile_id \notin DOMAIN config.profiles
       THEN /\ calls' = Answer("switch", profile_id, "not_found")
            /\ UNCHANGED config
       ELSE /\ config' = [config EXCEPT !.active_profile = profile_id]
            /\ calls' = Answer("switch", profile_id, "success")
    /\ UNCHANGED <<now, temp, output, run_vars, last_cleanup>>

\* POST /api/device/<device_id>/profile
api_device_profile(device_id, profile_id) ==
    /\ IF profile_id = <<>>
       THEN /\ calls' = Answer("link", profile_id, "id_required")
            /\ UNCHANGED config
       ELSE IF profile_id \notin DOMAIN config.profiles
       THEN /\ calls' = Answer("link", profile_id, "not_found")
            /\ UNCHANGED config
       ELSE /\ config' = [config EXCEPT !.device_profiles =
                            SetKey(@, device_id, profile_id)]
            /\ calls' = Answer("link", profile_id, "success")
    /\ UNCHANGED <<now, temp, output, run_vars, last_cleanup>>

NextConfig ==
    \/ \E raw \in RawIds, name \in ProfileNames : api_profiles(raw, name)
    \/ \E profile_id \in RawIds : api_delete_profile(profile_id)
    \/ \E profile_id \in RawIds : api_switch_profile(profile_id)
    \/ \E device_id \in Devices, profile_id \in RawIds :
         api_device_profile(device_id, profile_id)

SpecConfig == Init /\ [][NextConfig]_vars

----------------------------------------------------------------------------
(* Properties *)

Ended(r) == pc[r] = "done"
Staged(r) == downloaded_files[r] # <<>>
CombineRaised(r) == outcome[r] \in {"raised", "combine_error"}

RECURSIVE AudioItems(_)
\* The audio segments of a timeline, in order, without the silences.
AudioItems(timeline) ==
    IF timeline = <<>> THEN <<>>
    ELSE IF Head(timeline).tag = "audio"
         THEN <<Head(timeline)>> \o AudioItems(Tail(timeline))
         ELSE AudioItems(Tail(timeline))

SeqRange(s) == {s[i] : i \in 1..Len(s)}

C2_StagedFilesRemoved ==
    \A r \in Runs :
        (Ended(r) /\ Staged(r)) =>
            \A p \in DOMAIN temp : temp[p].owner # r

\* C3: an artifact with n >= 1 decoded segments lasts the sum of the segment
\* durations plus 2000 ms for each of the n - 1 gaps between them.
C3_DurationFormula ==
    \A f \in DOMAIN output :
        LET audio == AudioItems(output[f].timeline)
        IN  Len(audio) >= 1 =>
                output[f].duration =
                    TotalDuration(audio) + SilenceMs * (Len(audio) - 1)

\* C4: a combine of a non-empty staged list of which nothing decoded writes
\* no artifact.
C4_NoArtifactWithoutAudio ==
    \A r \in Runs :
        (/\ pc[r] \in {"cleaning", "done"}
         /\ Staged(r)
         /\ AudioItems(combined[r]) = <<>>) => ~wrote[r]

\* The sources of s that are in the set `keep`, in the order of s.
Restrict(s, keep) == SelectSeq(s, LAMBDA x : x \in keep)

RECURSIVE StagedSources(_, _)
\* The sources whose fetch the log records as staged, in enumeration order.
StagedSources(sources, log) ==
    IF sources = <<>> \/ log = <<>> THEN <<>>
    ELSE IF Head(log) = "ok"
         THEN <<Head(sources)>> \o StagedSources(Tail(sources), Tail(log))
         ELSE StagedSources(Tail(sources), Tail(log))

SourcesOf(items) == [i \in 1..Len(items) |-> items[i].src]

\* C5: the segments of every artifact come in the enumeration order of the
\* enabled sources of the run that wrote it: they are the enabled sources
\* restricted to those that were staged and decoded, each once.
C5_SegmentOrder ==
    \A f \in DOMAIN output :
        LET r == output[f].writer
            segs == SourcesOf(AudioItems(output[f].timeline))
        IN  /\ segs = Restrict(news_sources[r], SeqRange(segs))
            /\ SeqRange(segs) \subseteq
                   SeqRange(StagedSources(news_sources[r], fetch_log[r]))

C5_Witness ==
    \E f \in DOMAIN output :
        SourcesOf(AudioItems(output[f].timeline)) = ProfileSources

\* C6: once the fetch loop of a run is over, every enabled source has been
\* attempted, and the staged list holds exactly the sources whose fetch
\* succeeded, whichever sources failed before them.
C6_FetchIsolation ==
    \A r \in Runs :
        pc[r] \notin {"idle", "fetching"} =>
            /\ Len(fetch_log[r]) = Len(news_sources[r])
            /\ SourcesOf(downloaded_files[r]) =
                   StagedSources(news_sources[r], fetch_log[r])

C6_Witness ==
    \E r \in Runs :
        /\ pc[r] \notin {"idle", "fetching"}
        /\ Len(fetch_log[r]) = 2
        /\ fetch_log[r][1] # "ok"
        /\ fetch_log[r][2] = "ok"
        /\ SourcesOf(downloaded_files[r]) = <<news_sources[r][2]>>

\* C7: when a run whose every enabled source was unreachable has ended, no
\* other run is in flight and no write to the staging directory has ever
\* failed, the run has failed with no source succeeded, has written no
\* artifact, and the staging directory is empty.
C7_AllUnreachable ==
    \A r \in Runs :
        (/\ Ended(r)
         /\ news_sources[r] # <<>>
         /\ \A i \in 1..Len(fetch_log[r]) : fetch_log[r][i] = "unreachable"
         /\ \A q \in Runs \ {r} :
              /\ pc[q] \in {"idle", "done"}
              /\ "write_failed" \notin SeqRange(fetch_log[q]))
        => /\ outcome[r] = "no_sources"
           /\ ~wrote[r]
           /\ temp = EmptyDir

C9_TenDayExample ==
    (/\ last_cleanup.ran
     /\ last_cleanup.keep_count = 3
     /\ last_cleanup.max_age_days = 5
     /\ Len(last_cleanup.order) = 10
     /\ \A i \in 1..10 :
          last_cleanup.at - last_cleanup.mtimes[i] = (i - 1) * TicksPerDay)
    => /\ last_cleanup.kept = 6
       /\ last_cleanup.deleted = 4
       /\ last_cleanup.order[6] \in DOMAIN output

\* C10: every audio segment a run has put on its timeline was staged by that
\* run itself.
C10_RunsCombineOwnFiles ==
    \A r \in Runs :
        \A i \in 1..Len(combined[r]) :
            combined[r][i].tag = "audio" => combined[r][i].owner = r

TerminalStages == {"complete", "error"}

\* C11: the events of a stream never hold a terminal event (complete, error)
\* before their last place, and once the request has ended the last event is
\* a terminal one: exactly one terminal event, and nothing after it.
C11_OneTerminalEvent ==
    \A r \in Runs :
        /\ \A i \in 1..(Len(events[r]) - 1) :
             events[r][i].stage \notin TerminalStages
        /\ (mode[r] = "stream" /\ Ended(r)) =>
             /\ events[r] # <<>>
             /\ events[r][Len(events[r])].stage \in TerminalStages

\* A stream that ended after its pipeline raised: fetching, then error.
C11_Witness ==
    \E r \in Runs :
        /\ mode[r] = "stream"
        /\ Ended(r)
        /\ outcome[r] = "raised"
        /\ Len(events[r]) = 2
        /\ events[r][2].stage = "error"

\* C12: a stream that has ended ends in `complete` exactly when its run wrote
\* an artifact, and the file `complete` names is there.
C12_CompleteIffArtifact ==
    \A r \in Runs :
        (mode[r] = "stream" /\ Ended(r)) =>
            LET last == events[r][Len(events[r])]
            IN  /\ last.stage = "complete" <=> wrote[r]
                /\ last.stage = "complete" => last.filename \in DOMAIN output

\* C13: the artifact a run has written stays in the output directory as that
\* run wrote it (no retention cleanup or deletion takes place here).
C13_ArtifactImmutable ==
    \A r \in Runs :
        wrote[r] =>
            /\ output_filename[r] \in DOMAIN output
            /\ output[output_filename[r]].writer = r

\* C18: a step of the combine loop on a staged item that does not decode
\* leaves the timeline as it was, moves on to the next staged item, and the
\* run stays in its combine.
C18_DecodeFailureSkipsOne ==
    [][\A r \in Runs :
         (/\ pc[r] = "combining"
          /\ pos[r] <= Len(downloaded_files[r])
          /\ pos'[r] # pos[r]
          /\ ~Decodes(temp, downloaded_files[r][pos[r]].path))
         => /\ combined'[r] = combined[r]
            /\ pos'[r] = pos[r] + 1
            /\ pc'[r] = "combining"
            /\ downloaded_files'[r] = downloaded_files[r]]_vars

\* A combine whose first staged item did not decode and whose second did.
C18_Witness ==
    \E r \in Runs :
        /\ pc[r] = "combining"
        /\ Len(downloaded_files[r]) = 2
        /\ pos[r] = 3
        /\ SourcesOf(AudioItems(combined[r])) = <<downloaded_files[r][2].src>>

\* C19: no run ends by an exception leaving the run function; a run that has
\* ended returned success, or one of the two failures: no source succeeded,
\* combine error.
C19_NoExceptionEscapes ==
    \A r \in Runs :
        Ended(r) => outcome[r] \in {"success", "no_sources", "combine_error"}

\* C14: the artifact file of a run that is still exporting it is in the
\* output directory: no cleanup has deleted it.
C14_CleanupSparesFileBeingWritten ==
    \A r \in Runs :
        pc[r] = "exporting" => output_filename[r] \in DOMAIN output

HasNewline(email) == \E k \in 1..Len(email) : email[k] = "\n"

\* An `@`, then at least one character, then a dot, then at least one
\* character.
HasAtDomainTld(email) ==
    \E at \in 1..Len(email), dot \in 1..Len(email) :
        /\ email[at] = "@"
        /\ at + 1 < dot
        /\ email[dot] = "."
        /\ dot < Len(email)

\* C15: every call of send_bulletin with a recipient that contains a newline
\* or has no `@domain.tld` part returns failure and opens no SMTP connection.
C15_MalformedRecipientRejected ==
    \A i \in 1..Len(calls) :
        (HasNewline(calls[i].recipient) \/ ~HasAtDomainTld(calls[i].recipient))
            => (~calls[i].returned /\ ~calls[i].smtp_opened)

\* C16: a call of send_bulletin with an artifact of more than 25 MB returns
\* failure and opens no SMTP connection; with an artifact of at most 25 MB,
\* a valid recipient and configured credentials it opens the connection.
C16_SizeCeiling ==
    \A i \in 1..Len(calls) :
        LET c == calls[i]
        IN  /\ (c.exists /\ c.size > MaxAttachmentMB * BytesPerMB)
                  => (~c.returned /\ ~c.smtp_opened)
            /\ (/\ c.exists
                /\ c.size <= MaxAttachmentMB * BytesPerMB
                /\ is_valid_email(c.recipient)
                /\ c.credentials)
                  => c.smtp_opened

C16_Witness ==
    /\ calls # <<>>
    /\ calls[1].size = MaxAttachmentMB * BytesPerMB
    /\ calls[1].recipient = ValidAddress
    /\ calls[1].smtp_opened

\* C17: of two calls of cleanup_temp_files in succession, with no write in
\* between, the second one deletes nothing and leaves the staging area as
\* the first one left it, without a file.
C17_CleanupIdempotent ==
    \A i \in 1..(Len(calls) - 1) :
        (calls[i].op = "cleanup" /\ calls[i + 1].op = "cleanup")
            => /\ calls[i + 1].deleted = 0
               /\ calls[i + 1].left = calls[i].left
               /\ calls[i].left = EmptyDir

C17_Witness ==
    \E i \in 1..(Len(calls) - 1) :
        /\ calls[i].op = "cleanup" /\ calls[i].deleted = 2
        /\ calls[i + 1].op = "cleanup"

\* C20: the files one run has staged for different sources are different
\* files.
C20_DistinctStagedPaths ==
    \A r \in Runs :
        \A i, j \in 1..Len(downloaded_files[r]) :
            downloaded_files[r][i].src # downloaded_files[r][j].src
                => downloaded_files[r][i].path # downloaded_files[r][j].path

\* The default profile exists and the active profile is an existing one.
ProfilesConsistent(c) ==
    /\ DefaultId \in DOMAIN c.profiles
    /\ c.active_profile \in DOMAIN c.profiles

Rejected(answer) == answer # <<>> /\ answer[1].status # "success"

\* C21: every create, delete, switch (and link) request leaves the default
\* profile in place and the active profile an existing one; a delete that
\* removes the active profile makes 'default' the active one; a rejected
\* request leaves the configuration as it was.
C21_ProfilesConsistent ==
    [][/\ ProfilesConsistent(config)
       /\ ProfilesConsistent(config')
       /\ Rejected(calls') => config' = config
       /\ (/\ calls'[1].op = "delete"
           /\ calls'[1].status = "success"
           /\ calls'[1].id = config.active_profile)
            => config'.active_profile = DefaultId]_vars

\* The active profile has just been deleted.
C21_Witness ==
    /\ calls # <<>>
    /\ calls[1].op = "delete"
    /\ calls[1].status = "success"
    /\ calls[1].id = calls[1].active
    /\ config.active_profile = DefaultId

\* C22: every device of device_profiles is linked to the id of a profile
\* that exists.
C22_DeviceLinksExist ==
    \A d \in DOMAIN config.device_profiles :
        config.device_profiles[d] \in DOMAIN config.profiles

====
